---------------------------- MODULE Spec2Model ----------------------------
(***************************************************************************)
(* Model of the request pipeline of the natural-language-to-SQL service   *)
(* (backend/main.py, endpoint POST /process_query/).                       *)
(*                                                                         *)
(* process_query is an "async def" without a single await: the event loop  *)
(* runs one call from its first line to its return before it starts the    *)
(* next one, so the model serves one request at a time and follows it      *)
(* through the numbered steps of the handler.                              *)
(*                                                                         *)
(* Collaborators whose code is outside backend/main.py (IPTracker,         *)
(* SQLValidator, the quota limits) are modelled from the specification.    *)
(* Any collaborator call of process_query may raise: get_sql_for_query,     *)
(* validate, fetch_data, LogManager.log_app_activity, and, at every place   *)
(* they are called, LogManager.log_to_db and the IPTracker calls (the      *)
(* store behind them cannot be opened).  Where the exception goes is what  *)
(* the enclosing try blocks decide: to the handler of step 5, 6.5 or 7, to *)
(* the outermost handler, or, from the outermost handler itself, out of    *)
(* process_query.  The request may also carry no transport-level client.   *)
(*                                                                         *)
(* Text is modelled as a sequence of tokens (a word, a blank, a marker).   *)
(* The model covers the requests of one calendar day: quota[scope] is the  *)
(* counter of (scope, today).  The process may stop at any point and run   *)
(* its start-up again; the Quota Store and the history log are persisted,  *)
(* the request being served is dropped.                                    *)
(***************************************************************************)
EXTENDS Integers, Sequences, FiniteSets, TLC

VARIABLES
    quota,      \* Quota Store: quota[scope], today's count of an IP or of GLOBAL
    history,    \* the history log: sequence of QueryAttempt records
    nreq,       \* number of requests received so far (the request id)
    pc,         \* position of the request being served in process_query
    request,    \* the Request object: X-Forwarded-For header and client
    client_ip,  \* local client_ip of process_query
    sql_query,  \* local sql_query of process_query
    verdict,    \* what SQLValidator.validate did for sql_query in this request
    calls,      \* collaborator calls made for this request, in order
    raised,     \* texts of the exceptions caught while serving this request
    response,   \* the object returned by process_query, or NoResponse
    quota0,     \* the Quota Store as it was when this request arrived, or,
                \* after a restart, when the process stopped
    admitted    \* admitted[scope]: requests the limiter let through today

vars == <<quota, history, nreq, pc, request, client_ip, sql_query,
          verdict, calls, raised, response, quota0, admitted>>

-----------------------------------------------------------------------------
(* Bounds of the model *)

MaxRequests == 4

(* Configuration of the Rate Limiter (scaled down) *)

PER_IP_DAILY_LIMIT == 2

GLOBAL_DAILY_LIMIT == 3

-----------------------------------------------------------------------------
(* Small input sets *)

IPs == {"10.0.0.1", "10.0.0.2"}

GLOBAL == "GLOBAL"

Scopes == IPs \cup {GLOBAL}

NoIp == "-"

NoClient == "None"

WS == {" "}

MARKER == "ERROR:"

\* X-Forwarded-For values: a sequence of comma-separated entries, each an
\* address with or without blanks around it; <<>> is an absent or empty header.
XffHeaders ==
    { <<>>,
      << [text |-> "10.0.0.2", padded |-> TRUE],
         [text |-> "10.0.0.1", padded |-> FALSE] >> }

\* request.client: the transport-level peer, or None.
Clients == {"10.0.0.1", NoClient}

NoQuery == "None"

UserQueries == {"top scorer"}

\* Texts the Query Generator can return in response["sql_query"].
SafeSql == <<"SELECT", " ", "name", " ", "FROM", " ", "matches">>

UnsafeSql == <<"DELETE", " ", "FROM", " ", "matches">>

ErrorText == <<MARKER, " ", "no", " ", "such", " ", "data", " ">>

ErrorText2 == <<MARKER, " ", "bad", " ", MARKER, " ", "input">>

GeneratorTexts == {SafeSql, UnsafeSql, ErrorText, ErrorText2}

NoSql == <<>>

\* Texts of the exceptions the collaborators raise.
GeneratorExc == "APIConnectionError: upstream timed out"

ValidatorExc == "ValueError: not enough values to unpack"

ExecutorExc == "CatalogException: table secret_t does not exist"

LogExc == "OperationalError: database is locked"

\* raised by LogManager.log_to_db or by an IPTracker call
StoreExc == "OperationalError: unable to open database file"

ClientExc == "'NoneType' object has no attribute 'host'"

ExcTexts == {GeneratorExc, ValidatorExc, ExecutorExc, LogExc, StoreExc, ClientExc}

\* Rows the Query Executor returns.
Rows == <<"row1", "row2">>

-----------------------------------------------------------------------------
(* Fixed messages of process_query *)

MsgNoQuery == "No query provided. Please submit a 'user_query' parameter."

MsgGlobalLimit == "The service has reached its daily request limit. Please try again tomorrow."

MsgIpLimitHead == "You have exceeded your daily limit. You have "

MsgIpLimitTail == " requests remaining for today."

MsgGeneration == "Try again later. The server is having trouble."

MsgUnsafe == "I don't answer unsafe query: "

MsgExecution == "Oops! Something went wrong while trying to get your answer."

MsgInvalid == "Invalid request format. Please ensure you're sending the correct form data."


-----------------------------------------------------------------------------
(* Pure helpers *)

RECURSIVE LStrip(_)
LStrip(s) ==
    IF s = <<>> THEN s
    ELSE IF Head(s) \in WS THEN LStrip(Tail(s)) ELSE s

RECURSIVE RStrip(_)
RStrip(s) ==
    IF s = <<>> THEN s
    ELSE IF s[Len(s)] \in WS THEN RStrip(SubSeq(s, 1, Len(s) - 1)) ELSE s

\* str.strip()
Strip(s) == RStrip(LStrip(s))

\* str.replace(old, ""): every occurrence of the token is removed
Replace(s, old) == SelectSeq(s, LAMBDA t : t # old)

\* str.startswith(prefix)
StartsWith(s, prefix) == s # <<>> /\ Head(s) = prefix

\* error_msg = sql_query.replace("ERROR:", "").strip()
ErrorMessage(sql) == Strip(Replace(sql, MARKER))

Max0(n) == IF n > 0 THEN n ELSE 0

\* ResolveClientIp taking the last entry of the header, not the first.
ResolveClientIp_Last(req) ==
    IF req.forwarded_for # <<>>
    THEN req.forwarded_for[Len(req.forwarded_for)].text
    ELSE req.client

\* forwarded_for.split(",")[0].strip() if forwarded_for else request.client.host
ResolveClientIp(req) ==
    IF req.forwarded_for # <<>> THEN req.forwarded_for[1].text
    ELSE req.client

\* request.client.host raises when there is no header and no client
ClientMissing(req) == req.forwarded_for = <<>> /\ req.client = NoClient

-----------------------------------------------------------------------------
(* Quota Store and Rate Limiter (IPTracker) *)

\* Quota Store.get(scope, today)
QuotaGet(scope) == quota[scope]

get_global_remaining_requests == Max0(GLOBAL_DAILY_LIMIT - QuotaGet(GLOBAL))

get_ip_remaining_requests(ip) == Max0(PER_IP_DAILY_LIMIT - QuotaGet(ip))

check_ip_limit(ip) == QuotaGet(ip) < PER_IP_DAILY_LIMIT

QueryAttempt(ip, uq, sql, ok) ==
    [req |-> nreq, client_ip |-> ip, user_query |-> uq, generated_sql |-> sql,
     succeeded |-> ok]

\* Appends one QueryAttempt and counts it against the IP and GLOBAL quota.
record_query_history(ip, uq, sql, ok) ==
    /\ history' = Append(history, QueryAttempt(ip, uq, sql, ok))
    /\ quota' = [quota EXCEPT ![ip] = @ + 1, ![GLOBAL] = @ + 1]

\* The "remaining_requests" object of a response, read from the store q.
remaining_requests(ip, q) ==
    [user_remaining |-> Max0(PER_IP_DAILY_LIMIT - q[ip]),
     global_remaining |-> Max0(GLOBAL_DAILY_LIMIT - q[GLOBAL])]

-----------------------------------------------------------------------------
(* SQL Safety Validator *)

DenyKeywords == {"INSERT", "UPDATE", "DELETE", "DROP", "ALTER", "CREATE",
                 "TRUNCATE", "ATTACH", "COPY", "PRAGMA"}

SqlKeywords == {"SELECT", "FROM", "WHERE", "*"}

AllowList == {"matches", "name", "id"}

Tokens(sql) == Replace(sql, " ")

MultipleStatements(sql) ==
    \E i \in 1..Len(Tokens(sql)) : Tokens(sql)[i] = ";" /\ i < Len(Tokens(sql))

validate(sql) ==
    LET t == Tokens(sql) IN
    IF MultipleStatements(sql)
    THEN [is_safe |-> FALSE, reason |-> "Multiple statements are not allowed"]
    ELSE IF \E i \in 1..Len(t) : t[i] \in DenyKeywords
    THEN [is_safe |-> FALSE, reason |-> "Forbidden keyword"]
    ELSE IF t = <<>> \/ t[1] # "SELECT"
    THEN [is_safe |-> FALSE, reason |-> "Only SELECT statements are allowed"]
    ELSE IF \E i \in 1..Len(t) : t[i] \notin SqlKeywords \cup AllowList \cup {";"}
    THEN [is_safe |-> FALSE, reason |-> "Identifier outside the allowed schema"]
    ELSE [is_safe |-> TRUE, reason |-> ""]

-----------------------------------------------------------------------------
(* State *)

Pending == [pending |-> TRUE]

\* process_query returned nothing: an exception left it.
NoResponse == [no_response |-> TRUE]

NoRequest == [forwarded_for |-> <<>>, client |-> NoClient, user_query |-> NoQuery]

ZeroCounts == [s \in Scopes |-> 0]

Init ==
    /\ quota = ZeroCounts
    /\ history = <<>>
    /\ nreq = 0
    /\ pc = "idle"
    /\ request = NoRequest
    /\ client_ip = NoIp
    /\ sql_query = NoSql
    /\ verdict = "none"
    /\ calls = <<>>
    /\ raised = {}
    /\ response = Pending
    /\ quota0 = ZeroCounts
    /\ admitted = ZeroCounts

-----------------------------------------------------------------------------
(* process_query, step by step *)

\* except Exception as e (outermost handler), reached with e after the
\* exceptions of the set caught were handled in this step.  Its own call of
\* log_to_db is outside any try: when it raises, the exception leaves
\* process_query.
OuterHandler(caught, e) ==
    /\ raised' = raised \cup caught \cup {e}
    /\ \/ response' = [error |-> <<MsgInvalid>>, details |-> <<e>>]
       \/ response' = NoResponse
    /\ pc' = "done"

\* Entry, query extraction, steps 1-2: resolve the client IP.
Receive ==
    /\ pc = "idle"
    /\ nreq < MaxRequests
    /\ \E form \in UserQueries \cup {NoQuery}, body \in UserQueries \cup {NoQuery},
          xff \in XffHeaders, cl \in Clients :
         LET uq == IF form # NoQuery THEN form ELSE body
             req == [forwarded_for |-> xff, client |-> cl, user_query |-> uq]
         IN /\ nreq' = nreq + 1
            /\ request' = req
            /\ quota0' = quota
            /\ calls' = <<>>
            /\ sql_query' = NoSql
            /\ verdict' = "none"
            /\ IF form = NoQuery /\ body = NoQuery
               THEN /\ response' = [error |-> <<MsgNoQuery>>]
                    /\ pc' = "done"
                    /\ raised' = {}
                    /\ client_ip' = NoIp
               ELSE IF ClientMissing(req)
               THEN /\ OuterHandler({}, ClientExc)
                    /\ client_ip' = NoIp
               ELSE /\ client_ip' = ResolveClientIp(req)
                    /\ raised' = {}
                    /\ response' = Pending
                    /\ pc' = "check_limits"
    /\ UNCHANGED <<quota, history, admitted>>

\* CheckLimits with the two checks in the other order.
CheckLimits_IpFirst ==
    /\ pc = "check_limits"
    /\ \/ /\ IF ~ check_ip_limit(client_ip)
             THEN /\ response' =
                       [error |-> <<MsgIpLimitHead,
                                    ToString(get_ip_remaining_requests(client_ip)),
                                    MsgIpLimitTail>>]
                  /\ pc' = "done"
                  /\ UNCHANGED admitted
             ELSE IF get_global_remaining_requests <= 0
             THEN /\ response' = [error |-> <<MsgGlobalLimit>>]
                  /\ pc' = "done"
                  /\ UNCHANGED admitted
             ELSE /\ admitted' = [admitted EXCEPT ![client_ip] = @ + 1,
                                                  ![GLOBAL] = @ + 1]
                  /\ pc' = "generate"
                  /\ UNCHANGED response
          /\ UNCHANGED raised
       \/ \* an IPTracker read or log_to_db of steps 3-4 raises
          /\ OuterHandler({}, StoreExc)
          /\ UNCHANGED admitted
    /\ UNCHANGED <<quota, history, nreq, request, client_ip, sql_query,
                   verdict, calls, quota0>>

\* CheckLimits recording the rejected attempt in the history.
CheckLimits_RecordsRejection ==
    /\ pc = "check_limits"
    /\ \/ /\ IF get_global_remaining_requests <= 0
             THEN /\ record_query_history(client_ip, request.user_query, NoSql, FALSE)
                  /\ response' = [error |-> <<MsgGlobalLimit>>]
                  /\ pc' = "done"
                  /\ UNCHANGED admitted
             ELSE IF ~ check_ip_limit(client_ip)
             THEN /\ record_query_history(client_ip, request.user_query, NoSql, FALSE)
                  /\ response' =
                       [error |-> <<MsgIpLimitHead,
                                    ToString(get_ip_remaining_requests(client_ip)),
                                    MsgIpLimitTail>>]
                  /\ pc' = "done"
                  /\ UNCHANGED admitted
             ELSE /\ admitted' = [admitted EXCEPT ![client_ip] = @ + 1,
                                                  ![GLOBAL] = @ + 1]
                  /\ pc' = "generate"
                  /\ UNCHANGED <<response, history, quota>>
          /\ UNCHANGED raised
       \/ /\ OuterHandler({}, StoreExc)
          /\ UNCHANGED <<admitted, history, quota>>
    /\ UNCHANGED <<nreq, request, client_ip, sql_query, verdict, calls,
                   quota0>>

\* Steps 3-4: global daily limit, then the limit of the IP.  The calls of
\* these steps are in the outermost try only.
CheckLimits ==
    /\ pc = "check_limits"
    /\ \/ /\ IF get_global_remaining_requests <= 0
             THEN /\ response' = [error |-> <<MsgGlobalLimit>>]
                  /\ pc' = "done"
                  /\ UNCHANGED admitted
             ELSE IF ~ check_ip_limit(client_ip)
             THEN /\ response' =
                       [error |-> <<MsgIpLimitHead,
                                    ToString(get_ip_remaining_requests(client_ip)),
                                    MsgIpLimitTail>>]
                  /\ pc' = "done"
                  /\ UNCHANGED admitted
             ELSE /\ admitted' = [admitted EXCEPT ![client_ip] = @ + 1,
                                                  ![GLOBAL] = @ + 1]
                  /\ pc' = "generate"
                  /\ UNCHANGED response
          /\ UNCHANGED raised
       \/ \* an IPTracker read or log_to_db of steps 3-4 raises
          /\ OuterHandler({}, StoreExc)
          /\ UNCHANGED admitted
    /\ UNCHANGED <<quota, history, nreq, request, client_ip, sql_query,
                   verdict, calls, quota0>>

\* Step 5: the Query Generator returns a text or raises.
Generate ==
    /\ pc = "generate"
    /\ calls' = Append(calls, "get_sql_for_query")
    /\ \/ \E text \in GeneratorTexts :
            /\ sql_query' = text
            /\ pc' = "check_error"
            /\ UNCHANGED <<raised, response>>
       \/ \* except Exception as e of step 5
          /\ raised' = raised \cup {GeneratorExc}
          /\ response' = [error |-> <<MsgGeneration>>,
                          remaining_requests |-> remaining_requests(client_ip, quota)]
          /\ pc' = "done"
          /\ UNCHANGED sql_query
       \/ \* the same handler, and its log_to_db or a read of the remaining
          \* quota raises
          /\ OuterHandler({GeneratorExc}, StoreExc)
          /\ UNCHANGED sql_query
    /\ UNCHANGED <<quota, history, nreq, request, client_ip, verdict,
                   quota0, admitted>>

\* Step 6: the generated text is an error message.
CheckError ==
    /\ pc = "check_error"
    /\ IF StartsWith(sql_query, MARKER)
       THEN \/ /\ record_query_history(client_ip, request.user_query, sql_query, FALSE)
               /\ response' = [sql_query |-> sql_query,
                               error |-> ErrorMessage(sql_query),
                               remaining_requests |->
                                   remaining_requests(client_ip, quota')]
               /\ pc' = "done"
               /\ UNCHANGED raised
            \/ \* record_query_history raises
               /\ OuterHandler({}, StoreExc)
               /\ UNCHANGED <<history, quota>>
            \/ \* the attempt is recorded, then log_to_db or a read of the
               \* remaining quota raises
               /\ record_query_history(client_ip, request.user_query, sql_query, FALSE)
               /\ OuterHandler({}, StoreExc)
       ELSE /\ pc' = "validate"
            /\ UNCHANGED <<history, quota, response, raised>>
    /\ UNCHANGED <<nreq, request, client_ip, sql_query, verdict, calls,
                   quota0, admitted>>

\* except Exception as e of step 6.5: the exception is logged and the
\* request goes on to step 7, unless the log_to_db of the handler raises.
ValidationHandler(e) ==
    \/ /\ raised' = raised \cup {e}
       /\ pc' = "execute"
       /\ UNCHANGED response
    \/ OuterHandler({e}, StoreExc)

\* Step 6.5: second layer of SQL validation.  The try block holds the call
\* of validate and the whole rejection branch.
ValidateStep ==
    /\ pc = "validate"
    /\ calls' = Append(calls, "validate")
    /\ \/ \* verdict unsafe: log, record the failed attempt, return
          /\ ~ validate(sql_query).is_safe
          /\ verdict' = "unsafe"
          /\ record_query_history(client_ip, request.user_query, sql_query, FALSE)
          /\ response' = [sql_query |-> sql_query,
                          error |-> <<MsgUnsafe, validate(sql_query).reason>>,
                          remaining_requests |-> remaining_requests(client_ip, quota')]
          /\ pc' = "done"
          /\ UNCHANGED raised
       \/ \* verdict unsafe, and log_to_db or record_query_history raises
          /\ ~ validate(sql_query).is_safe
          /\ verdict' = "unsafe"
          /\ ValidationHandler(StoreExc)
          /\ UNCHANGED <<history, quota>>
       \/ \* verdict unsafe, and reading the remaining quota raises after
          \* the failed attempt was recorded
          /\ ~ validate(sql_query).is_safe
          /\ verdict' = "unsafe"
          /\ record_query_history(client_ip, request.user_query, sql_query, FALSE)
          /\ ValidationHandler(StoreExc)
       \/ /\ validate(sql_query).is_safe
          /\ verdict' = "safe"
          /\ pc' = "execute"
          /\ UNCHANGED <<history, quota, response, raised>>
       \/ \* validate raises
          /\ verdict' = "raised"
          /\ ValidationHandler(ValidatorExc)
          /\ UNCHANGED <<history, quota>>
    /\ UNCHANGED <<nreq, request, client_ip, sql_query, quota0, admitted>>

\* except Exception as e of step 7
ExecutionHandler(e) ==
    \/ /\ raised' = raised \cup {e}
       /\ record_query_history(client_ip, request.user_query, sql_query, FALSE)
       /\ response' = [sql_query |-> sql_query,
                       error |-> <<MsgExecution>>,
                       remaining_requests |-> remaining_requests(client_ip, quota')]
       /\ pc' = "done"
    \/ \* record_query_history of the handler raises
       /\ OuterHandler({e}, StoreExc)
       /\ UNCHANGED <<history, quota>>
    \/ \* the failed attempt is recorded, then log_to_db or a read of the
       \* remaining quota raises
       /\ record_query_history(client_ip, request.user_query, sql_query, FALSE)
       /\ OuterHandler({e}, StoreExc)

\* Step 7, first half: run the query and record the successful attempt.
Execute ==
    /\ pc = "execute"
    /\ calls' = Append(calls, "fetch_data")
    /\ \/ /\ record_query_history(client_ip, request.user_query, sql_query, TRUE)
          /\ pc' = "respond"
          /\ UNCHANGED <<raised, response>>
       \/ \* fetch_data raises
          ExecutionHandler(ExecutorExc)
       \/ \* record_query_history of the success raises
          ExecutionHandler(StoreExc)
    /\ UNCHANGED <<nreq, request, client_ip, sql_query, verdict, quota0,
                   admitted>>

\* Step 7, second half: log the success and build the response.
Respond ==
    /\ pc = "respond"
    /\ \/ /\ response' = [sql_query |-> sql_query,
                          result |-> Rows,
                          remaining_requests |-> remaining_requests(client_ip, quota)]
          /\ pc' = "done"
          /\ UNCHANGED <<raised, history, quota>>
       \/ \* log_app_activity raises
          ExecutionHandler(LogExc)
       \/ \* a read of the remaining quota raises
          ExecutionHandler(StoreExc)
    /\ UNCHANGED <<nreq, request, client_ip, sql_query, verdict, calls,
                   quota0, admitted>>

\* The response is delivered; the handler's locals are gone.
Return ==
    /\ pc = "done"
    /\ pc' = "idle"
    /\ request' = NoRequest
    /\ client_ip' = NoIp
    /\ sql_query' = NoSql
    /\ verdict' = "none"
    /\ calls' = <<>>
    /\ raised' = {}
    /\ response' = Pending
    /\ quota0' = quota
    /\ UNCHANGED <<quota, history, nreq, admitted>>

\* init_databases creating the tables anew.
init_databases_Recreate(store) == [s \in Scopes |-> 0]

\* DatabaseManager.init_databases on a store that already exists: the tables
\* are created only if absent, so the persisted counters are what is read back.
init_databases(store) == [s \in Scopes |-> store[s]]

\* The process stops (whatever request it was serving is dropped) and the
\* module start-up runs again.
Restart ==
    /\ quota0' = quota
    /\ quota' = init_databases(quota)
    /\ pc' = "started"
    /\ request' = NoRequest
    /\ client_ip' = NoIp
    /\ sql_query' = NoSql
    /\ verdict' = "none"
    /\ calls' = <<>>
    /\ raised' = {}
    /\ response' = Pending
    /\ UNCHANGED <<history, nreq, admitted>>

\* uvicorn.run: the restarted process begins to serve requests.
Serve ==
    /\ pc = "started"
    /\ pc' = "idle"
    /\ quota0' = quota
    /\ UNCHANGED <<quota, history, nreq, request, client_ip, sql_query,
                   verdict, calls, raised, response, admitted>>

Next ==
    \/ Receive
    \/ CheckLimits
    \/ Generate
    \/ CheckError
    \/ ValidateStep
    \/ Execute
    \/ Respond
    \/ Return
    \/ Restart
    \/ Serve

Spec == Init /\ [][Next]_vars

-----------------------------------------------------------------------------
(* Vocabulary of the properties *)

Range(s) == {s[i] : i \in DOMAIN s}

Done == pc = "done"

\* The QueryAttempt records written for the request being served.
Attempts == {i \in DOMAIN history : history[i].req = nreq}

FailedAttempts == {i \in Attempts : ~ history[i].succeeded}

HasError == "error" \in DOMAIN response

ErrorHead == IF HasError /\ response.error # <<>> THEN response.error[1] ELSE ""

GlobalRejected == Done /\ ErrorHead = MsgGlobalLimit

IpRejected == Done /\ ErrorHead = MsgIpLimitHead

ExecutorCalled == "fetch_data" \in Range(calls)

ValidatorCalled == "validate" \in Range(calls)

GeneratorCalled == "get_sql_for_query" \in Range(calls)

\* The limiter let the request being served through.
Admitted == GeneratorCalled \/ pc = "generate"

\* Requests of the client's IP admitted before the one being served.
AdmittedBefore == admitted[client_ip] - (IF Admitted THEN 1 ELSE 0)

Mentions(text, e) == \E i \in DOMAIN text : text[i] = e

\* Some field of the response carries the text e.
Leaks(e) ==
    \/ HasError /\ Mentions(response.error, e)
    \/ "details" \in DOMAIN response /\ Mentions(response.details, e)
    \/ "sql_query" \in DOMAIN response /\ Mentions(response.sql_query, e)
    \/ "result" \in DOMAIN response /\ Mentions(response.result, e)

-----------------------------------------------------------------------------
(* Properties *)

\* C1: the Query Executor runs on a query only after SQLValidator.validate
\* returned is_safe = true for it in the same request.
C1_ExecutorOnlyAfterApproval == ExecutorCalled => verdict = "safe"

\* C2: when the validator itself raises, the request ends as a validation
\* rejection and the Query Executor is not called.
C2_ValidatorFaultFailsClosed ==
    (Done /\ verdict = "raised") => (~ ExecutorCalled /\ ErrorHead = MsgUnsafe)

\* C3: a request that arrives when both the global and its IP's remaining
\* quota are 0 is never answered with the per-IP rejection and never let
\* through: the answer of the limiter is the global-limit rejection, and the
\* only other end of the request is the outermost handler, when a call of
\* step 3 raised.
C3_GlobalBeforeIp ==
    (Done /\ client_ip \in IPs
          /\ Max0(GLOBAL_DAILY_LIMIT - quota0[GLOBAL]) = 0
          /\ Max0(PER_IP_DAILY_LIMIT - quota0[client_ip]) = 0)
        => /\ ~ IpRejected
           /\ calls = <<>>
           /\ \/ response = [error |-> <<MsgGlobalLimit>>]
              \/ /\ raised = {StoreExc}
                 /\ response \in {[error |-> <<MsgInvalid>>, details |-> <<StoreExc>>],
                                   NoResponse}

C3_Witness ==
    /\ GlobalRejected
    /\ client_ip \in IPs
    /\ quota0[GLOBAL] >= GLOBAL_DAILY_LIMIT
    /\ quota0[client_ip] >= PER_IP_DAILY_LIMIT

\* C4: a request rejected by the rate limiter calls neither the generator,
\* the validator nor the executor, and leaves every quota counter as it was.
C4_RejectionHasNoEffect ==
    (GlobalRejected \/ IpRejected) => (calls = <<>> /\ quota = quota0)

C4_Witness == IpRejected /\ quota[client_ip] > 0 /\ quota = quota0 /\ calls = <<>>

\* C5: between requests, the count of every scope equals the number of
\* requests the limiter admitted for that scope.
C5_CountEqualsAdmitted ==
    pc = "idle" => \A s \in Scopes : quota[s] = admitted[s]

\* C6: once PER_IP_DAILY_LIMIT requests of an IP were admitted, and the global
\* limit is not exhausted, a further request of that IP gets the per-IP
\* rejection reporting 0 remaining requests.
C6_FurtherRequestRejected ==
    (Done /\ client_ip \in IPs
          /\ quota0[GLOBAL] < GLOBAL_DAILY_LIMIT
          /\ AdmittedBefore >= PER_IP_DAILY_LIMIT)
        => response = [error |-> <<MsgIpLimitHead, "0", MsgIpLimitTail>>]

\* C7: record_query_history is called at most once for a request.
C7_OneAttemptPerRequest == Cardinality(Attempts) <= 1

\* C8: every request that ends rejected or failed has a history record with
\* succeeded = false.
C8_FailureIsRecorded ==
    (Done /\ client_ip \in IPs /\ HasError /\ raised \cap {ClientExc} = {})
        => FailedAttempts # {}

\* C9: no field of a response carries the text of an exception raised while
\* the request was served.
C9_NoExceptionText == Done => \A e \in raised : ~ Leaks(e)

\* C10: when the generator's text begins with ERROR:, one failed attempt is
\* recorded, the response carries the text without the marker as its error,
\* and neither the validator nor the executor is called.
C10_ErrorMarker ==
    (Done /\ StartsWith(sql_query, MARKER))
        => /\ Cardinality(Attempts) = 1
           /\ FailedAttempts = Attempts
           /\ HasError
           /\ response.error = Strip(SelectSeq(sql_query, LAMBDA t : t # MARKER))
           /\ response.sql_query = sql_query
           /\ ~ ValidatorCalled
           /\ ~ ExecutorCalled

\* C11: when the validator's verdict is is_safe = false, one failed attempt is
\* recorded, the error of the response carries the validator's reason, and
\* the Query Executor is not called.
C11_UnsafeRejected ==
    (Done /\ verdict = "unsafe")
        => /\ Cardinality(Attempts) = 1
           /\ FailedAttempts = Attempts
           /\ HasError
           /\ response.error = <<MsgUnsafe, validate(sql_query).reason>>
           /\ "result" \notin DOMAIN response
           /\ ~ ExecutorCalled

\* C12: when generation, validation and execution all succeed, one attempt
\* with succeeded = true is recorded, the counters of the IP and of GLOBAL are
\* raised, and the response carries the rows with remaining-quota figures
\* equal to max(0, limit - count) after the increment.
C12_SuccessPath ==
    (Done /\ verdict = "safe" /\ ExecutorCalled /\ ExecutorExc \notin raised)
        => /\ \E i \in Attempts : history[i].succeeded
           /\ quota[client_ip] = quota0[client_ip] + 1
           /\ quota[GLOBAL] = quota0[GLOBAL] + 1
           /\ "result" \in DOMAIN response
           /\ response.result = Rows
           /\ response.remaining_requests =
                  [user_remaining |-> Max0(PER_IP_DAILY_LIMIT - (quota0[client_ip] + 1)),
                   global_remaining |-> Max0(GLOBAL_DAILY_LIMIT - (quota0[GLOBAL] + 1))]

\* The same on the runs where no statement of the request raises.
C12_SuccessPathNoFault ==
    (Done /\ verdict = "safe" /\ ExecutorCalled /\ raised = {}) => C12_SuccessPath

\* Number of increments made for a scope: one per QueryAttempt of the IP, and
\* one per QueryAttempt for GLOBAL.
Increments(s) ==
    IF s = GLOBAL THEN Len(history)
    ELSE Cardinality({i \in DOMAIN history : history[i].client_ip = s})

\* C13: no increment is lost (the count of a scope is the number of increments
\* made for it), so the requests admitted so far have lowered the remaining
\* quota of their IP and of GLOBAL by their number.
C13_NoLostUpdates ==
    pc = "idle" =>
        /\ \A s \in Scopes : quota[s] = Increments(s)
        /\ \A ip \in IPs :
              get_ip_remaining_requests(ip) = Max0(PER_IP_DAILY_LIMIT - admitted[ip])
        /\ get_global_remaining_requests = Max0(GLOBAL_DAILY_LIMIT - admitted[GLOBAL])

\* The part of C13 about the increments alone.
C13_IncrementsCounted == \A s \in Scopes : quota[s] = Increments(s)

\* C15: every response contains remaining_requests with user_remaining and
\* global_remaining, and exactly one of result and error.
C15_ResponseShape ==
    Done =>
        /\ "remaining_requests" \in DOMAIN response
        /\ DOMAIN response.remaining_requests = {"user_remaining", "global_remaining"}
        /\ ("result" \in DOMAIN response) # ("error" \in DOMAIN response)

\* C17: the requests that pass admission never exceed GLOBAL_DAILY_LIMIT in
\* total nor PER_IP_DAILY_LIMIT for one IP.
C17_AdmissionsWithinLimits ==
    /\ admitted[GLOBAL] <= GLOBAL_DAILY_LIMIT
    /\ \A ip \in IPs : admitted[ip] <= PER_IP_DAILY_LIMIT

\* C18: a response with error goes with no attempt recorded as succeeded; a
\* response with result goes with an attempt recorded as succeeded and none
\* recorded as failed.
C18_HistoryAgreesWithResponse ==
    Done =>
        /\ HasError => \A i \in Attempts : ~ history[i].succeeded
        /\ "result" \in DOMAIN response =>
              /\ \E i \in Attempts : history[i].succeeded
              /\ FailedAttempts = {}

\* C14: after a restart every quota counter, and so the remaining quota of
\* every IP and of GLOBAL, is what it was before the restart.
C14_RestartKeepsQuota ==
    pc = "started" =>
        /\ \A s \in Scopes : quota[s] = quota0[s]
        /\ \A ip \in IPs :
              remaining_requests(ip, quota) = remaining_requests(ip, quota0)

C14_Witness ==
    /\ pc = "started"
    /\ quota0[GLOBAL] > 0
    /\ \E ip \in IPs : quota0[ip] > 0 /\ quota[ip] = quota0[ip]
    /\ quota[GLOBAL] = quota0[GLOBAL]

\* The client identity of a request, as the claim states it.
Identity(req) ==
    IF Len(req.forwarded_for) > 0 THEN Head(req.forwarded_for).text
    ELSE req.client

\* C16: the client identity is the first entry of X-Forwarded-For when the
\* header is present and non-empty, else the transport-level address, and it
\* is the key of the per-IP limit check, of the remaining-quota figures and of
\* the history records of the request.
C16_OneClientIdentity ==
    (pc \notin {"idle", "started"} /\ client_ip # NoIp) =>
        /\ client_ip = Identity(request)
        /\ \A i \in Attempts : history[i].client_ip = Identity(request)
        /\ (Done /\ "remaining_requests" \in DOMAIN response) =>
              response.remaining_requests.user_remaining =
                  Max0(PER_IP_DAILY_LIMIT - quota[Identity(request)])
        /\ IpRejected => quota0[Identity(request)] >= PER_IP_DAILY_LIMIT
        /\ Admitted => quota0[Identity(request)] < PER_IP_DAILY_LIMIT

C16_Witness ==
    /\ Done
    /\ Len(request.forwarded_for) = 2
    /\ request.client = "10.0.0.1"
    /\ client_ip = "10.0.0.2"
    /\ \E i \in Attempts : history[i].client_ip = "10.0.0.2"
    /\ response.remaining_requests.user_remaining =
           Max0(PER_IP_DAILY_LIMIT - quota["10.0.0.2"])

=============================================================================
